---- MODULE Spec2Model ----
(***************************************************************************)
(* Model of the Pagination utility class (src/index.ts).                   *)
(*                                                                         *)
(* The class is a set of static pure functions.  The model keeps the most  *)
(* recent call: which operation ran (op), the arguments it was given       *)
(* (args) and the value it returned (ret).  Every operation can be called  *)
(* at any time; generateMetaTags is fed with the PaginationResult that     *)
(* calculate has just returned.                                            *)
(*                                                                         *)
(* Optional / nullable values (page?: number, number | null, the result    *)
(* of URLSearchParams.get) are encoded as sequences of length at most one: *)
(* <<>> is undefined/null, <<v>> is the value v.                           *)
(***************************************************************************)
EXTENDS Integers, Sequences, FiniteSets, TLC

VARIABLES op, args, ret

vars == <<op, args, ret>>

(***************************************************************************)
(* Bounds of the model.                                                    *)
(***************************************************************************)
MaxPage == 5
MaxSmallLimit == 3
MaxItems == 7
MaxTotalPages == 9
MaxVisibleBound == 6

(***************************************************************************)
(* Program constants.                                                      *)
(***************************************************************************)
DEFAULT_PAGE == 1
DEFAULT_LIMIT == 10
MAX_LIMIT == 100
DefaultMaxVisible == 5

(***************************************************************************)
(* JavaScript helpers.                                                     *)
(***************************************************************************)
Undefined == <<>>
Null == <<>>
Some(v) == <<v>>

Max(a, b) == IF a >= b THEN a ELSE b
Min(a, b) == IF a <= b THEN a ELSE b

\* x ?? d
Nullish(x, d) == IF x = Undefined THEN d ELSE x[1]

\* Math.ceil(a / b) for integers a >= 0, b >= 1
CeilDiv(a, b) == IF a % b = 0 THEN a \div b ELSE (a \div b) + 1

(***************************************************************************)
(* calculate                                                               *)
(***************************************************************************)
ClampPage(p) == Max(Nullish(p, DEFAULT_PAGE), 1)

ClampLimit(l) == Min(Max(Nullish(l, DEFAULT_LIMIT), 1), MAX_LIMIT)

ClampTotalItems(t) == Max(t, 0)

TotalPagesFloor(totalItems, limit) == totalItems \div limit
TotalPages(totalItems, limit) == CeilDiv(totalItems, limit)

CurrentPageUnclamped(page, totalPages) == page
CurrentPage(page, totalPages) == Min(page, Max(totalPages, 1))

OffsetOfRequest(page, currentPage, limit) == (page - 1) * limit
Offset(page, currentPage, limit) == (currentPage - 1) * limit

ItemsStartZeroBased(totalItems, offset) == IF totalItems = 0 THEN 0 ELSE offset
ItemsStart(totalItems, offset) == IF totalItems = 0 THEN 0 ELSE offset + 1

ItemsEndUncapped(totalItems, offset, limit) == offset + limit
ItemsEnd(totalItems, offset, limit) == Min(offset + limit, totalItems)

Calculate(params) ==
    LET page        == ClampPage(params.page)
        limit       == ClampLimit(params.limit)
        totalItems  == ClampTotalItems(params.totalItems)
        totalPages  == TotalPages(totalItems, limit)
        currentPage == CurrentPage(page, totalPages)
        offset      == Offset(page, currentPage, limit)
        hasNextPage == currentPage < totalPages
        hasPreviousPage == currentPage > 1
    IN  [ currentPage     |-> currentPage,
          totalPages      |-> totalPages,
          pageSize        |-> limit,
          totalItems      |-> totalItems,
          hasNextPage     |-> hasNextPage,
          hasPreviousPage |-> hasPreviousPage,
          nextPage        |-> IF hasNextPage THEN Some(currentPage + 1) ELSE Null,
          previousPage    |-> IF hasPreviousPage THEN Some(currentPage - 1) ELSE Null,
          offset          |-> offset,
          items           |-> [ start |-> ItemsStart(totalItems, offset),
                                end   |-> ItemsEnd(totalItems, offset, limit) ] ]

(***************************************************************************)
(* Inputs of calculate.                                                    *)
(***************************************************************************)
Optional(S) == {Undefined} \cup {Some(v) : v \in S}

PageInputs == Optional(-1 .. MaxPage)
LimitInputs == Optional((-1 .. MaxSmallLimit)
                        \cup {DEFAULT_LIMIT, MAX_LIMIT - 1, MAX_LIMIT, MAX_LIMIT + 1})
TotalItemsInputs == (-2 .. MaxItems)
                    \cup {2 * DEFAULT_LIMIT, 2 * DEFAULT_LIMIT + 1,
                          MAX_LIMIT - 1, MAX_LIMIT, MAX_LIMIT + 1,
                          2 * MAX_LIMIT, 2 * MAX_LIMIT + 1}

DoCalculate ==
    \E p \in PageInputs, l \in LimitInputs, t \in TotalItemsInputs :
        LET params == [page |-> p, limit |-> l, totalItems |-> t]
        IN  /\ op' = "calculate"
            /\ args' = params
            /\ ret' = Calculate(params)

(***************************************************************************)
(* getPageNumbers                                                          *)
(*                                                                         *)
(* The returned array holds numbers and the string '...'; its entries are  *)
(* tagged records so that the two kinds are never confused.                *)
(***************************************************************************)
Num(n) == [kind |-> "number", value |-> n]
Ellipsis == [kind |-> "string", value |-> "..."]

\* Array.from({ length: n }, (_, i) => i + 1)
ArrayFromLength(n) == [i \in 1 .. n |-> Num(i)]

\* for (let i = start; i <= end; i++) pages.push(i)
PushRange(start, end) ==
    [i \in 1 .. (IF end >= start THEN end - start + 1 ELSE 0) |-> Num(start + i - 1)]

HalfVisible(maxVisible) == maxVisible \div 2

InitialWindow(currentPage, totalPages, maxVisible) ==
    [ start |-> Max(currentPage - HalfVisible(maxVisible), 2),
      end   |-> Min(currentPage + HalfVisible(maxVisible), totalPages - 1) ]

\* Adjust if we're near the start
NearStart(w, totalPages, maxVisible) ==
    IF w.start <= 2
    THEN [start |-> 2, end |-> Min(maxVisible, totalPages - 1)]
    ELSE w

\* Adjust if we're near the end
NearEnd(w, totalPages, maxVisible) ==
    IF w.end >= totalPages - 1
    THEN [start |-> Max(2, totalPages - maxVisible + 1), end |-> totalPages - 1]
    ELSE w

Window(currentPage, totalPages, maxVisible) ==
    NearEnd(NearStart(InitialWindow(currentPage, totalPages, maxVisible),
                      totalPages, maxVisible),
            totalPages, maxVisible)

LeadingEllipsisEager(w) == IF w.start >= 2 THEN <<Ellipsis>> ELSE <<>>
LeadingEllipsis(w) == IF w.start > 2 THEN <<Ellipsis>> ELSE <<>>

TrailingEllipsis(w, totalPages) == IF w.end < totalPages - 1 THEN <<Ellipsis>> ELSE <<>>

LastPage(totalPages) == IF totalPages > 1 THEN <<Num(totalPages)>> ELSE <<>>

GetPageNumbers(currentPage, totalPages, maxVisibleArg) ==
    LET maxVisible == Nullish(maxVisibleArg, DefaultMaxVisible)
    IN  IF totalPages <= maxVisible
        THEN ArrayFromLength(totalPages)
        ELSE LET w == Window(currentPage, totalPages, maxVisible)
             IN  <<Num(1)>>
                 \o LeadingEllipsis(w)
                 \o PushRange(w.start, w.end)
                 \o TrailingEllipsis(w, totalPages)
                 \o LastPage(totalPages)

CurrentPageInputs == -1 .. (MaxTotalPages + 2)
TotalPagesInputs == 0 .. MaxTotalPages
MaxVisibleInputs == Optional(0 .. MaxVisibleBound)

DoGetPageNumbers ==
    \E c \in CurrentPageInputs, t \in TotalPagesInputs, m \in MaxVisibleInputs :
        /\ op' = "getPageNumbers"
        /\ args' = [currentPage |-> c, totalPages |-> t, maxVisible |-> m]
        /\ ret' = GetPageNumbers(c, t, m)

(***************************************************************************)
(* parseSearchParams                                                       *)
(*                                                                         *)
(* A query value is a sequence of one-character strings; get() returns     *)
(* null for a missing key.  A JavaScript number is either NaN or an        *)
(* integer.  Number() is modelled on the alphabet the inputs use: blanks,  *)
(* signs, decimal digits and letters.                                      *)
(***************************************************************************)
NaN == [isNaN |-> TRUE, value |-> 0]
JSNumber(n) == [isNaN |-> FALSE, value |-> n]

Digits == {"0", "1", "2", "3", "4", "5", "6", "7", "8", "9"}

DigitValue(c) ==
    CASE c = "0" -> 0 [] c = "1" -> 1 [] c = "2" -> 2 [] c = "3" -> 3
      [] c = "4" -> 4 [] c = "5" -> 5 [] c = "6" -> 6 [] c = "7" -> 7
      [] c = "8" -> 8 [] c = "9" -> 9

RECURSIVE TrimStart(_)
TrimStart(s) == IF s # <<>> /\ Head(s) = " " THEN TrimStart(Tail(s)) ELSE s

RECURSIVE TrimEnd(_)
TrimEnd(s) ==
    IF s # <<>> /\ s[Len(s)] = " " THEN TrimEnd(SubSeq(s, 1, Len(s) - 1)) ELSE s

AllDigits(s) == s # <<>> /\ \A i \in 1 .. Len(s) : s[i] \in Digits

RECURSIVE DecimalValue(_)
DecimalValue(s) ==
    IF s = <<>> THEN 0
    ELSE 10 * DecimalValue(SubSeq(s, 1, Len(s) - 1)) + DigitValue(s[Len(s)])

\* Number(v) for v null or a string
ToNumber(v) ==
    IF v = Null THEN JSNumber(0)
    ELSE LET s == TrimEnd(TrimStart(v[1]))
         IN  IF s = <<>> THEN JSNumber(0)
             ELSE IF AllDigits(s) THEN JSNumber(DecimalValue(s))
             ELSE IF Head(s) = "+" /\ AllDigits(Tail(s))
                  THEN JSNumber(DecimalValue(Tail(s)))
             ELSE IF Head(s) = "-" /\ AllDigits(Tail(s))
                  THEN JSNumber(0 - DecimalValue(Tail(s)))
             ELSE NaN

\* x || d for a number x: NaN and 0 are falsy
OrDefaultKeepZero(x, d) == IF x.isNaN THEN d ELSE x.value
OrDefault(x, d) == IF x.isNaN \/ x.value = 0 THEN d ELSE x.value

ParsePage(raw) == Max(OrDefault(ToNumber(raw), DEFAULT_PAGE), 1)

ParseLimit(raw) == Min(Max(OrDefault(ToNumber(raw), DEFAULT_LIMIT), 1), MAX_LIMIT)

\* searchParams.get(key)
Get(searchParams, key) ==
    IF key \in DOMAIN searchParams THEN Some(searchParams[key]) ELSE Null

ParseSearchParams(searchParams) ==
    [ page  |-> ParsePage(Get(searchParams, "page")),
      limit |-> ParseLimit(Get(searchParams, "limit")) ]

RawValues ==
    { <<>>, <<"0">>, <<"1">>, <<"7">>, <<"-", "5">>, <<"+", "3">>, <<"0", "0", "7">>,
      <<" ", "4", " ">>, <<"a", "b", "c">>, <<"1", "a">>, <<"-">>, <<"-", "0">>,
      <<"9", "9">>, <<"1", "0", "0">>, <<"1", "0", "1">>, <<"2", "5", "0">> }

\* query strings carrying page and/or limit
SearchParamsInputs ==
    {<<>>}
    \cup {[k \in {"page"} |-> v] : v \in RawValues}
    \cup {[k \in {"limit"} |-> v] : v \in RawValues}
    \cup {[k \in {"page", "limit"} |-> IF k = "page" THEN v ELSE w] :
             v \in RawValues, w \in RawValues}

DoParseSearchParams ==
    \E q \in SearchParamsInputs :
        /\ op' = "parseSearchParams"
        /\ args' = q
        /\ ret' = ParseSearchParams(q)

(***************************************************************************)
(* generateMetaTags                                                        *)
(***************************************************************************)
\* `${v}` for v a number or null
Template(v) == IF v = Null THEN "null" ELSE ToString(v[1])

PageUrl(baseUrl, page) == baseUrl \o "?page=" \o Template(page)

PrevTag(baseUrl, pagination) ==
    IF pagination.hasPreviousPage
    THEN <<[property |-> "prev", content |-> PageUrl(baseUrl, pagination.previousPage)]>>
    ELSE <<>>

NextTag(baseUrl, pagination) ==
    IF pagination.hasNextPage
    THEN <<[property |-> "next", content |-> PageUrl(baseUrl, pagination.nextPage)]>>
    ELSE <<>>

GenerateMetaTagsNextFirst(baseUrl, pagination) ==
    NextTag(baseUrl, pagination) \o PrevTag(baseUrl, pagination)
GenerateMetaTags(baseUrl, pagination) ==
    PrevTag(baseUrl, pagination) \o NextTag(baseUrl, pagination)

BaseUrlInputs == {"https://x/y", "/posts?tag=a"}

DoGenerateMetaTags ==
    /\ op = "calculate"
    /\ \E b \in BaseUrlInputs :
        /\ op' = "generateMetaTags"
        /\ args' = [baseUrl |-> b, pagination |-> ret]
        /\ ret' = GenerateMetaTags(b, ret)

Init ==
    /\ op = "none"
    /\ args = <<>>
    /\ ret = <<>>

Next ==
    \/ DoCalculate
    \/ DoGetPageNumbers
    \/ DoParseSearchParams
    \/ DoGenerateMetaTags

Spec == Init /\ [][Next]_vars

(***************************************************************************)
(* Properties                                                              *)
(***************************************************************************)
IsCalc == op = "calculate"
IsPages == op = "getPageNumbers"
IsParse == op = "parseSearchParams"
IsMeta == op = "generateMetaTags"

\* the limit the caller asked for, brought into 1..100 (10 when absent)
RequestedLimit ==
    IF args.limit = Undefined THEN 10
    ELSE IF args.limit[1] < 1 THEN 1
    ELSE IF args.limit[1] > 100 THEN 100
    ELSE args.limit[1]

\* the number of items the caller reported, negative counted as none
RequestedTotalItems == IF args.totalItems < 0 THEN 0 ELSE args.totalItems

\* C1: calculate returns pageSize = the requested limit clamped to 1..100
\* (10 when absent), totalItems = the requested count with negatives as 0,
\* and totalPages = ceil(totalItems / pageSize): the least n >= 0 with
\* n * pageSize >= totalItems; totalPages is 0 exactly when totalItems is 0.
C1_TotalPagesIsCeiling ==
    IsCalc =>
        /\ ret.pageSize = RequestedLimit
        /\ ret.pageSize \in 1 .. 100
        /\ ret.totalItems = RequestedTotalItems
        /\ ret.totalPages >= 0
        /\ ret.totalPages * ret.pageSize >= ret.totalItems
        /\ (ret.totalPages - 1) * ret.pageSize < ret.totalItems
        /\ (ret.totalPages = 0 <=> ret.totalItems = 0)

C1_Witness ==
    /\ IsCalc
    /\ args.limit = Some(101)
    /\ args.totalItems = 201
    /\ ret.pageSize = 100
    /\ ret.totalPages = 3

ResultFields ==
    { "currentPage", "totalPages", "pageSize", "totalItems", "hasNextPage",
      "hasPreviousPage", "nextPage", "previousPage", "offset", "items" }

\* C2: calculate always returns a result (never an error) whose currentPage
\* lies in 1 .. max(totalPages, 1): a page above totalPages comes back as the
\* last valid page, a page below 1 or absent comes back as 1.
C2_CurrentPageInRange ==
    IsCalc =>
        LET last == IF ret.totalPages >= 1 THEN ret.totalPages ELSE 1
        IN  /\ DOMAIN ret = ResultFields
            /\ ret.currentPage >= 1
            /\ ret.currentPage <= last
            /\ (args.page = Undefined => ret.currentPage = 1)
            /\ (args.page # Undefined /\ args.page[1] < 1 => ret.currentPage = 1)
            /\ (args.page # Undefined /\ args.page[1] > ret.totalPages /\ args.page[1] >= 1
                    => ret.currentPage = last)

C2_Witness ==
    /\ IsCalc
    /\ args = [page |-> Some(5), limit |-> Some(10), totalItems |-> 20]
    /\ ret.currentPage = 2
    /\ ret.totalPages = 2
    /\ ~ret.hasNextPage
    /\ ret.hasPreviousPage

\* C3: the returned offset is (currentPage - 1) * pageSize of the returned
\* (clamped) currentPage and pageSize, and is never negative.
C3_OffsetFromCurrentPage ==
    IsCalc =>
        /\ ret.offset = (ret.currentPage - 1) * ret.pageSize
        /\ ret.offset >= 0

C3_Witness ==
    /\ IsCalc
    /\ args = [page |-> Some(5), limit |-> Some(10), totalItems |-> 20]
    /\ ret.offset = 10

\* C4: items.end = min(offset + pageSize, totalItems); items.start is 0 iff
\* totalItems is 0 and offset + 1 otherwise; the range is {0, 0} when the
\* requested totalItems is 0 or negative.
C4_ItemRange ==
    IsCalc =>
        /\ ret.items.end = (IF ret.offset + ret.pageSize <= ret.totalItems
                            THEN ret.offset + ret.pageSize ELSE ret.totalItems)
        /\ (ret.items.start = 0 <=> ret.totalItems = 0)
        /\ (ret.totalItems # 0 => ret.items.start = ret.offset + 1)
        /\ (args.totalItems <= 0 => ret.items = [start |-> 0, end |-> 0])

C4_Witness ==
    /\ IsCalc
    /\ args = [page |-> Some(3), limit |-> Some(10), totalItems |-> 21]
    /\ ret.items = [start |-> 21, end |-> 21]

TagsOf(property) == {i \in 1 .. Len(ret) : ret[i].property = property}

FalsyRaw == { <<>>, <<"0">>, <<"a", "b", "c">>, <<"1", "a">>, <<"-">>, <<"-", "0">> }

HasFalsy(key) == key \notin DOMAIN args \/ args[key] \in FalsyRaw

\* C6: parseSearchParams always returns page >= 1 and limit in 1 .. 100; an
\* entry that is absent, non-numeric or zero yields the default (1 / 10); a
\* negative limit yields 1, a limit above 100 yields 100.
C6_ParsedInRange ==
    IsParse =>
        /\ DOMAIN ret = {"page", "limit"}
        /\ ret.page >= 1
        /\ ret.limit \in 1 .. 100
        /\ (HasFalsy("page") => ret.page = 1)
        /\ (HasFalsy("limit") => ret.limit = 10)
        /\ ("limit" \in DOMAIN args /\ args["limit"] = <<"-", "5">> => ret.limit = 1)
        /\ ("page" \in DOMAIN args /\ args["page"] = <<"-", "5">> => ret.page = 1)
        /\ ("limit" \in DOMAIN args
                /\ args["limit"] \in {<<"1", "0", "1">>, <<"2", "5", "0">>}
                => ret.limit = 100)
        /\ ("limit" \in DOMAIN args /\ args["limit"] = <<"9", "9">> => ret.limit = 99)
        /\ ("page" \in DOMAIN args /\ args["page"] = <<"2", "5", "0">> => ret.page = 250)

C6_Witness ==
    /\ IsParse
    /\ "page" \in DOMAIN args
    /\ "limit" \in DOMAIN args
    /\ args["page"] = <<"a", "b", "c">>
    /\ args["limit"] = <<"-", "5">>
    /\ ret = [page |-> 1, limit |-> 1]

\* the maxVisible in effect for the call (5 when the argument is omitted)
EffectiveMaxVisible == IF args.maxVisible = Undefined THEN 5 ELSE args.maxVisible[1]

NumericIdx == {i \in 1 .. Len(ret) : ret[i].kind = "number"}
EllipsisIdx == {i \in 1 .. Len(ret) : ret[i].kind = "string"}

\* C7: for maxVisible >= 1, totalPages > maxVisible and currentPage in
\* 1 .. totalPages, currentPage is one of the numbers getPageNumbers returns.
C7_CurrentPageShown ==
    ( /\ IsPages
      /\ EffectiveMaxVisible >= 1
      /\ args.totalPages > EffectiveMaxVisible
      /\ args.currentPage \in 1 .. args.totalPages )
    => \E i \in NumericIdx : ret[i].value = args.currentPage

\* C8: for maxVisible >= 1, totalPages >= 1 and currentPage in
\* 1 .. totalPages, getPageNumbers returns at most maxVisible numbers.
C8_AtMostMaxVisibleNumbers ==
    ( /\ IsPages
      /\ EffectiveMaxVisible >= 1
      /\ args.totalPages >= 1
      /\ args.currentPage \in 1 .. args.totalPages )
    => Cardinality(NumericIdx) <= EffectiveMaxVisible

\* C9: for maxVisible >= 1, totalPages >= 1 and any currentPage, the sequence
\* getPageNumbers returns starts with 1 and ends with totalPages, its numbers
\* are strictly increasing within 1 .. totalPages, an ellipsis stands between
\* two consecutive numbers iff they differ by more than 1, at most two
\* ellipses occur, and for totalPages <= maxVisible it is exactly
\* 1 .. totalPages without ellipsis.
C9_WellFormedPageNumbers ==
    ( /\ IsPages
      /\ EffectiveMaxVisible >= 1
      /\ args.totalPages >= 1 )
    => /\ Len(ret) >= 1
       /\ ret[1].kind = "number" /\ ret[1].value = 1
       /\ ret[Len(ret)].kind = "number" /\ ret[Len(ret)].value = args.totalPages
       /\ \A i \in NumericIdx : ret[i].value \in 1 .. args.totalPages
       /\ \A i, j \in NumericIdx : i < j => ret[i].value < ret[j].value
       /\ \A i \in 1 .. (Len(ret) - 1) :
              (ret[i].kind = "number" /\ ret[i + 1].kind = "number")
                  => ret[i + 1].value = ret[i].value + 1
       /\ \A i \in EllipsisIdx :
              /\ ret[i].value = "..."
              /\ 1 < i /\ i < Len(ret)
              /\ ret[i - 1].kind = "number"
              /\ ret[i + 1].kind = "number"
              /\ ret[i + 1].value > ret[i - 1].value + 1
       /\ Cardinality(EllipsisIdx) <= 2
       /\ (args.totalPages <= EffectiveMaxVisible
               => /\ Len(ret) = args.totalPages
                  /\ \A i \in 1 .. Len(ret) :
                         ret[i].kind = "number" /\ ret[i].value = i)

\* both edge corrections fire: the near-start branch sets end to
\* totalPages - 1, which triggers the near-end branch
C9_Witness ==
    /\ IsPages
    /\ args = [currentPage |-> 1, totalPages |-> 6, maxVisible |-> Some(5)]
    /\ Len(ret) = 6
    /\ EllipsisIdx = {}

\* the request asks for an existing page of a non-empty collection with a
\* limit in 1 .. 100
InRangeRequest(a, r) ==
    /\ a.totalItems >= 1
    /\ a.limit # Undefined
    /\ a.limit[1] \in 1 .. 100
    /\ a.page # Undefined
    /\ a.page[1] \in 1 .. r.totalPages

\* C10: for totalItems >= 1 and limit in 1 .. 100 the item ranges of pages
\* 1 .. totalPages partition the items: page 1 starts at item 1, page p + 1
\* starts right after the end of page p, the last page ends at totalItems,
\* 1 <= start <= end <= totalItems, and every page holds pageSize items
\* except the last, which holds between 1 and pageSize.
C10_RangesPartitionItems ==
    [][ (op' = "calculate" /\ InRangeRequest(args', ret')) =>
          /\ ret'.currentPage = args'.page[1]
          /\ (ret'.currentPage = 1 => ret'.items.start = 1)
          /\ (ret'.currentPage = ret'.totalPages => ret'.items.end = ret'.totalItems)
          /\ 1 <= ret'.items.start
          /\ ret'.items.start <= ret'.items.end
          /\ ret'.items.end <= ret'.totalItems
          /\ (ret'.currentPage < ret'.totalPages
                  => ret'.items.end - ret'.items.start + 1 = ret'.pageSize)
          /\ ret'.items.end - ret'.items.start + 1 \in 1 .. ret'.pageSize
          /\ ( ( /\ op = "calculate"
                 /\ InRangeRequest(args, ret)
                 /\ args.limit = args'.limit
                 /\ args.totalItems = args'.totalItems
                 /\ args'.page[1] = args.page[1] + 1 )
               => ret'.items.start = ret.items.end + 1 )
      ]_vars

\* the last page of 7 items in pages of 3 holds the single item 7
C10_Witness ==
    /\ IsCalc
    /\ args = [page |-> Some(3), limit |-> Some(3), totalItems |-> 7]
    /\ ret.currentPage = 3
    /\ ret.totalPages = 3
    /\ ret.items = [start |-> 7, end |-> 7]

====
